---- MODULE Spec2Model ----
(***************************************************************************)
(* A model of app.py: the start-up pipeline that runs at module level      *)
(* (extract archives, select the extracted CSV files, load, merge,         *)
(* normalise, set defaults, bind the Flask app) and the request handlers   *)
(* (home on the module-level app, index/create_plot on the app built by    *)
(* create_app).                                                            *)
(*                                                                         *)
(* Text is modelled as a sequence of characters, so that the column-label  *)
(* transform (strip, lower, replace) is computed character by character; a *)
(* character is a one-character string, or the string "U+xxxx" for the     *)
(* code point xxxx where the character cannot be written.  A cell of a CSV *)
(* file is an atomic string; a parsed date is a day number.                *)
(***************************************************************************)
EXTENDS Integers, Sequences, FiniteSets, TLC

VARIABLES
    pandas,           \* the major version of the pandas the process imports
    pc,               \* position of the module-level code / phase of the process
    error,            \* the uncaught exception that ended start-up, "" if none
    zip_files,        \* line 21: the archives found in csv_files/
    zi,               \* index of the next archive of the loop of line 26
    extracted,        \* EXTRACT_FOLDER: base filename -> [content, written, src]
    clock,            \* the rank of the next write of the run
    csv_files,        \* line 39: the selected CSV files, newest first
    fi,               \* index of the next file of the loop of line 49
    all_data_frames,  \* line 48
    df,               \* the module-level data frame (the Unified Table)
    DEFAULT_ATHLETE,  \* line 76
    app,              \* the module-level Flask app: its url map
    factory_app,      \* the app returned by create_app(), once somebody called it
    request,          \* the request being answered last
    filtered_df,      \* create_plot's local filtered_df of the last request
    response          \* the response to the last request

vars == <<pandas, pc, error, zip_files, zi, extracted, clock, csv_files, fi,
          all_data_frames, df, DEFAULT_ATHLETE, app, factory_app, request,
          filtered_df, response>>

(***************************************************************************)
(* Bounds of the model.                                                    *)
(***************************************************************************)
MaxZips == 2        \* archives in csv_files/
MaxEntries == 2     \* entries of one archive
MaxRows == 2        \* rows of one CSV file (files with the usual header)
MaxRowsWide == 2    \* rows of one CSV file (files with any of the headers)

(***************************************************************************)
(* Text.                                                                   *)
(***************************************************************************)
\* the capital letters of Basic Latin, Latin-1 Supplement and Latin Extended-A
\* (the alphabet of the labels of the model), and what str.lower() makes of each
UpperCase == <<"A", "B", "C", "D", "E", "F", "G", "H", "I", "J", "K", "L",
               "M", "N", "O", "P", "Q", "R", "S", "T", "U", "V", "W", "X",
               "Y", "Z", "U+00C0", "U+00C1", "U+00C2", "U+00C3", "U+00C4",
               "U+00C5", "U+00C6", "U+00C7", "U+00C8", "U+00C9", "U+00CA",
               "U+00CB", "U+00CC", "U+00CD", "U+00CE", "U+00CF", "U+00D0",
               "U+00D1", "U+00D2", "U+00D3", "U+00D4", "U+00D5", "U+00D6",
               "U+00D8", "U+00D9", "U+00DA", "U+00DB", "U+00DC", "U+00DD",
               "U+00DE", "U+0100", "U+0102", "U+0104", "U+0106", "U+0108",
               "U+010A", "U+010C", "U+010E", "U+0110", "U+0112", "U+0114",
               "U+0116", "U+0118", "U+011A", "U+011C", "U+011E", "U+0120",
               "U+0122", "U+0124", "U+0126", "U+0128", "U+012A", "U+012C",
               "U+012E", "U+0130", "U+0132", "U+0134", "U+0136", "U+0139",
               "U+013B", "U+013D", "U+013F", "U+0141", "U+0143", "U+0145",
               "U+0147", "U+014A", "U+014C", "U+014E", "U+0150", "U+0152",
               "U+0154", "U+0156", "U+0158", "U+015A", "U+015C", "U+015E",
               "U+0160", "U+0162", "U+0164", "U+0166", "U+0168", "U+016A",
               "U+016C", "U+016E", "U+0170", "U+0172", "U+0174", "U+0176",
               "U+0178", "U+0179", "U+017B", "U+017D">>

LowerCase == <<<<"a">>, <<"b">>, <<"c">>, <<"d">>, <<"e">>, <<"f">>, <<"g">>,
               <<"h">>, <<"i">>, <<"j">>, <<"k">>, <<"l">>, <<"m">>, <<"n">>,
               <<"o">>, <<"p">>, <<"q">>, <<"r">>, <<"s">>, <<"t">>, <<"u">>,
               <<"v">>, <<"w">>, <<"x">>, <<"y">>, <<"z">>, <<"U+00E0">>,
               <<"U+00E1">>, <<"U+00E2">>, <<"U+00E3">>, <<"U+00E4">>,
               <<"U+00E5">>, <<"U+00E6">>, <<"U+00E7">>, <<"U+00E8">>,
               <<"U+00E9">>, <<"U+00EA">>, <<"U+00EB">>, <<"U+00EC">>,
               <<"U+00ED">>, <<"U+00EE">>, <<"U+00EF">>, <<"U+00F0">>,
               <<"U+00F1">>, <<"U+00F2">>, <<"U+00F3">>, <<"U+00F4">>,
               <<"U+00F5">>, <<"U+00F6">>, <<"U+00F8">>, <<"U+00F9">>,
               <<"U+00FA">>, <<"U+00FB">>, <<"U+00FC">>, <<"U+00FD">>,
               <<"U+00FE">>, <<"U+0101">>, <<"U+0103">>, <<"U+0105">>,
               <<"U+0107">>, <<"U+0109">>, <<"U+010B">>, <<"U+010D">>,
               <<"U+010F">>, <<"U+0111">>, <<"U+0113">>, <<"U+0115">>,
               <<"U+0117">>, <<"U+0119">>, <<"U+011B">>, <<"U+011D">>,
               <<"U+011F">>, <<"U+0121">>, <<"U+0123">>, <<"U+0125">>,
               <<"U+0127">>, <<"U+0129">>, <<"U+012B">>, <<"U+012D">>,
               <<"U+012F">>, <<"i", "U+0307">>, <<"U+0133">>, <<"U+0135">>,
               <<"U+0137">>, <<"U+013A">>, <<"U+013C">>, <<"U+013E">>,
               <<"U+0140">>, <<"U+0142">>, <<"U+0144">>, <<"U+0146">>,
               <<"U+0148">>, <<"U+014B">>, <<"U+014D">>, <<"U+014F">>,
               <<"U+0151">>, <<"U+0153">>, <<"U+0155">>, <<"U+0157">>,
               <<"U+0159">>, <<"U+015B">>, <<"U+015D">>, <<"U+015F">>,
               <<"U+0161">>, <<"U+0163">>, <<"U+0165">>, <<"U+0167">>,
               <<"U+0169">>, <<"U+016B">>, <<"U+016D">>, <<"U+016F">>,
               <<"U+0171">>, <<"U+0173">>, <<"U+0175">>, <<"U+0177">>,
               <<"U+00FF">>, <<"U+017A">>, <<"U+017C">>, <<"U+017E">>>>

\* the characters str.strip() drops: those for which str.isspace() holds
Whitespace == {"\t", "\n", "U+000B", "\f", "\r", "U+001C", "U+001D", "U+001E",
               "U+001F", " ", "U+0085", "U+00A0", "U+1680", "U+2000",
               "U+2001", "U+2002", "U+2003", "U+2004", "U+2005", "U+2006",
               "U+2007", "U+2008", "U+2009", "U+200A", "U+2028", "U+2029",
               "U+202F", "U+205F", "U+3000"}

\* str.strip(): drop leading and trailing whitespace
RECURSIVE lstrip(_)
lstrip(s) ==
    IF s = <<>> THEN s
    ELSE IF Head(s) \in Whitespace THEN lstrip(Tail(s)) ELSE s

RECURSIVE rstrip(_)
rstrip(s) ==
    IF s = <<>> THEN s
    ELSE IF s[Len(s)] \in Whitespace THEN rstrip(SubSeq(s, 1, Len(s) - 1)) ELSE s

str_strip(s) == rstrip(lstrip(s))

RECURSIVE Flatten(_)
Flatten(ss) == IF ss = <<>> THEN <<>> ELSE Head(ss) \o Flatten(Tail(ss))

\* str.lower(), one character: the characters it becomes (U+0130 becomes two)
lower_char(c) ==
    IF \E i \in 1..Len(UpperCase) : UpperCase[i] = c
    THEN LowerCase[CHOOSE i \in 1..Len(UpperCase) : UpperCase[i] = c]
    ELSE <<c>>

str_lower(s) == Flatten([i \in 1..Len(s) |-> lower_char(s[i])])

\* str.replace(" ", "_", regex=True): the pattern is the space character alone
str_replace(s) == [i \in 1..Len(s) |-> IF s[i] = " " THEN "_" ELSE s[i]]

\* line 69: df.columns.str.strip().str.lower().str.replace(" ", "_", regex=True)
normalize_label(s) == str_replace(str_lower(str_strip(s)))

\* the labels the code names
COL_DATE == <<"d","a","t","e">>
COL_NAME == <<"n","a","m","e">>
DEFAULT_VAR1 == <<"t","i","m","e","_","t","o","_","t","a","k","e","o","f","f">>
DEFAULT_VAR2 == <<"m","r","s","i">>

(***************************************************************************)
(* Dates.  pd.to_datetime of a string: a day number, or no date at all.    *)
(***************************************************************************)
NaN == "NaN"      \* the missing marker of a cell (pandas reads an empty cell as NaN)
NaT == 0          \* the missing marker of a date (errors="coerce")

IsDateString(s) == s \in {"2024-01-01", "2024-01-02", "2024-01-03"}

parse_date(s) ==
    CASE s = "2024-01-01" -> 1
      [] s = "2024-01-02" -> 2
      [] s = "2024-01-03" -> 3
      [] OTHER -> NaT

\* pd.to_datetime of a number: nanoseconds since 1970-01-01; the day of a small
\* number, counted like the days above (2024-01-01 is day 1)
EPOCH == 1 - 19723

(***************************************************************************)
(* Files.  A CSV file is its header and its rows of raw cells, or           *)
(* something pd.read_csv cannot parse (an empty or binary file).  A data    *)
(* frame is [cols, rows]: the column labels and the rows, each a sequence   *)
(* of cells in column order.                                                *)
(***************************************************************************)
InSeq(x, s) == \E i \in 1..Len(s) : s[i] = x

SeqsUpTo(S, n) == UNION {[1..k -> S] : k \in 0..n}

Unparseable == [parseable |-> FALSE, cols |-> <<>>, rows |-> <<>>]

\* the cells pd.read_csv reads as missing (its default na_values); None is one
\* of them from pandas 2.0 on
NA_VALUES(version) ==
    {"", "#N/A", "#N/A N/A", "#NA", "-1.#IND", "-1.#QNAN", "-NaN", "-nan",
     "1.#IND", "1.#QNAN", "<NA>", "N/A", "NA", "NULL", "NaN", "n/a", "nan", "null"}
    \cup (IF version = 1 THEN {} ELSE {"None"})

\* the cells that are numerals, and the number pd.read_csv makes of one; a number
\* is not the string of its digits
Numerals == {"7", "35.2"}

IsNumeral(s) == s \in Numerals

to_numeric(s) == "num:" \o s

\* the cell is a number
IsNumber(cell) == cell \in {to_numeric(s) : s \in Numerals}

DIGITS == <<"0", "1", "2", "3", "4", "5", "6", "7", "8", "9">>

\* str(n) of a natural number
RECURSIVE decimal(_)
decimal(n) ==
    IF n < 10 THEN <<DIGITS[n + 1]>>
    ELSE decimal(n \div 10) \o <<DIGITS[(n % 10) + 1]>>

\* f"{col}.{n}"
suffixed(col, n) == col \o <<".">> \o decimal(n)

\* f"Unnamed: {i}": the name pd.read_csv gives column i (from 0) of an empty label
unnamed(i) == <<"U","n","n","a","m","e","d",":"," ">> \o decimal(i)

name_unnamed(cols) ==
    [j \in 1..Len(cols) |-> IF cols[j] = <<>> THEN unnamed(j - 1) ELSE cols[j]]

\* counts: how often a name was given so far (a dict, 0 for a name it lacks)
Count(counts, c) == IF c \in DOMAIN counts THEN counts[c] ELSE 0

Put(counts, c, v) == [k \in DOMAIN counts \cup {c} |-> IF k = c THEN v ELSE counts[k]]

NoCounts == [k \in {} |-> 0]

\* pandas before 2.0, the loop that renames one repeated label:
\* while count > 0: counts[name] = count + 1; name = f"{name}.{count}";
\* count = counts.get(name, 0)
RECURSIVE rename_before_2(_, _)
rename_before_2(col, counts) ==
    LET cur == Count(counts, col) IN
    IF cur = 0 THEN [col |-> col, counts |-> counts]
    ELSE rename_before_2(suffixed(col, cur), Put(counts, col, cur + 1))

\* pandas before 2.0: the labels from left to right
RECURSIVE dedup_before_2(_, _, _)
dedup_before_2(header, i, counts) ==
    IF i > Len(header) THEN header
    ELSE LET r == rename_before_2(header[i], counts)
         IN  dedup_before_2([header EXCEPT ![i] = r.col], i + 1,
                            Put(r.counts, r.col, 1))

\* pandas 2, the loop that renames one repeated label: the suffix grows until
\* the name is none of the header:
\* while cur_count > 0: counts[old_col] = cur_count + 1;
\* col = f"{old_col}.{cur_count}";
\* if col in this_header: cur_count += 1 else: cur_count = counts[col]
RECURSIVE rename_from_2(_, _, _, _)
rename_from_2(old_col, cur, counts, header) ==
    LET counted == Put(counts, old_col, cur + 1)
        col == suffixed(old_col, cur)
        next == IF InSeq(col, header) THEN cur + 1 ELSE Count(counted, col)
    IN  IF next > 0 THEN rename_from_2(old_col, next, counted, header)
        ELSE [col |-> col, counts |-> counted]

\* pandas 2: the labels in the order of col_loop_order
RECURSIVE dedup_from_2(_, _, _, _)
dedup_from_2(header, order, k, counts) ==
    IF k > Len(order) THEN header
    ELSE LET i == order[k]
             cur == Count(counts, header[i])
             r == IF cur > 0 THEN rename_from_2(header[i], cur, counts, header)
                  ELSE [col |-> header[i], counts |-> counts]
         IN  dedup_from_2([header EXCEPT ![i] = r.col], order, k + 1,
                          Put(r.counts, r.col, 1))

\* pandas 2: the columns that have a label come before those that have none
col_loop_order(cols) ==
    SelectSeq([j \in 1..Len(cols) |-> j], LAMBDA j : cols[j] # <<>>)
    \o SelectSeq([j \in 1..Len(cols) |-> j], LAMBDA j : cols[j] = <<>>)

\* pd.read_csv names the columns without a label and renames a label that
\* occurred before in the header: x, x.1, x.2; which name a label gets when the
\* header holds the suffixed name already depends on the version
mangle_dupe_cols(cols, version) ==
    IF version = 1 THEN dedup_before_2(name_unnamed(cols), 1, NoCounts)
    ELSE dedup_from_2(name_unnamed(cols), col_loop_order(cols), 1, NoCounts)

\* pd.read_csv infers the type of a column: numbers if every cell that is not
\* missing is a numeral, strings (object) otherwise
infer_column(cells) ==
    IF /\ \E i \in 1..Len(cells) : cells[i] # NaN
       /\ \A i \in 1..Len(cells) : cells[i] # NaN => IsNumeral(cells[i])
    THEN [i \in 1..Len(cells) |-> IF cells[i] = NaN THEN NaN ELSE to_numeric(cells[i])]
    ELSE cells

\* line 51: pd.read_csv(file): equal labels renamed, missing cells read as NaN,
\* the type of each column inferred
read_csv(text, version) ==
    LET missing == [i \in 1..Len(text.rows) |->
                      [j \in 1..Len(text.cols) |->
                         IF text.rows[i][j] \in NA_VALUES(version) THEN NaN
                         ELSE text.rows[i][j]]]
        typed == [j \in 1..Len(text.cols) |->
                    infer_column([i \in 1..Len(missing) |-> missing[i][j]])]
    IN  [cols |-> mangle_dupe_cols(text.cols, version),
         rows |-> [i \in 1..Len(text.rows) |->
                     [j \in 1..Len(text.cols) |-> typed[j][i]]]]

\* line 52: df.empty
frame_empty(frame) == Len(frame.rows) = 0 \/ Len(frame.cols) = 0

\* line 56: all_data_frames.append(df)
append_frame(frames, frame) == Append(frames, frame)

\* the columns of pd.concat: the union of the labels, in order of first appearance
RECURSIVE union_columns(_)
union_columns(frames) ==
    IF frames = <<>> THEN <<>>
    ELSE LET rest == union_columns(SubSeq(frames, 1, Len(frames) - 1))
             last == frames[Len(frames)]
         IN  rest \o SelectSeq(last.cols, LAMBDA c : ~InSeq(c, rest))

\* the rows of one frame laid out on the columns of the concatenation
reindex(frame, cols) ==
    [i \in 1..Len(frame.rows) |->
       [j \in 1..Len(cols) |->
          IF InSeq(cols[j], frame.cols)
          THEN frame.rows[i][CHOOSE k \in 1..Len(frame.cols) : frame.cols[k] = cols[j]]
          ELSE NaN]]

\* line 62: pd.concat(all_data_frames, ignore_index=True)
concat(frames) ==
    LET cols == union_columns(frames)
    IN  [cols |-> cols,
         rows |-> Flatten([f \in 1..Len(frames) |-> reindex(frames[f], cols)])]

\* the positions of a label among the columns: df[label] selects these
positions(cols, label) == {j \in 1..Len(cols) : cols[j] = label}

\* line 69
normalize_columns(cols) == [j \in 1..Len(cols) |-> normalize_label(cols[j])]

\* a faulty line 71: no row is dropped
dropna_keeps(rows, d) == rows

\* line 71: df.dropna(subset=["date"])
dropna(rows, d) == SelectSeq(rows, LAMBDA r : r[d] # NaT)

\* pandas 2 takes the format of the column from its first cell that is not
\* missing, if that is a date string
guessed_format(cells) ==
    LET P == {i \in 1..Len(cells) : cells[i] # NaN} IN
    /\ P # {}
    /\ IsDateString(cells[CHOOSE i \in P : \A k \in P : i <= k])

\* line 70: pd.to_datetime(column, errors="coerce"): a missing cell is NaT; a
\* number is a time of 1970 (under a format taken from a date string, pandas 2
\* matches it against the format, and it is NaT); a string is its date, or NaT if
\* it is none (a numeral that was read as text is none)
to_datetime_coerce(cells, version) ==
    [i \in 1..Len(cells) |->
       IF cells[i] = NaN THEN NaT
       ELSE IF IsNumber(cells[i])
       THEN IF version = 2 /\ guessed_format(cells) THEN NaT ELSE EPOCH
       ELSE parse_date(cells[i])]

\* line 70: the date column parsed, the other cells unchanged
parse_date_column(rows, d, version) ==
    LET dates == to_datetime_coerce([i \in 1..Len(rows) |-> rows[i][d]], version)
    IN  [i \in 1..Len(rows) |->
           [j \in 1..Len(rows[i]) |-> IF j = d THEN dates[i] ELSE rows[i][j]]]

\* df["name"].unique(): the distinct values in order of first appearance
RECURSIVE unique(_)
unique(s) ==
    IF s = <<>> THEN <<>>
    ELSE LET rest == unique(SubSeq(s, 1, Len(s) - 1))
         IN  IF InSeq(s[Len(s)], rest) THEN rest ELSE Append(rest, s[Len(s)])

column(frame, j) == [i \in 1..Len(frame.rows) |-> frame.rows[i][j]]

NoFrame == [cols |-> <<>>, rows |-> <<>>]

(***************************************************************************)
(* Step 1, lines 20-36: extraction.  An archive either cannot be opened    *)
(* (zipfile.ZipFile raises) or lists its entries; an entry is readable     *)
(* ("ok"), has a bad local header (zip_ref.open raises) or a bad checksum  *)
(* (source.read() raises, after open(extracted_path, "wb") has created the *)
(* target).  An entry name is its directories, stem and extension: the     *)
(* entry ".csv" has an empty stem.                                          *)
(***************************************************************************)
\* line 30: file.endswith(".csv")
endswith_csv(name) == name.ext = ".csv"

\* line 31: os.path.basename(file)
basename(name) == [stem |-> name.stem, ext |-> name.ext]

\* open(path, "wb") and write: the file is created or overwritten; written is the
\* rank of the write among the writes of the run
write_file(folder, base, content, written, src) ==
    [f \in DOMAIN folder \cup {base} |->
       IF f = base THEN [content |-> content, written |-> written, src |-> src]
       ELSE folder[f]]

\* zip_ref.open(file): the entry of that name; of several entries of one name the
\* archive gives the last
getinfo(entries, name) ==
    entries[CHOOSE k \in 1..Len(entries) :
               /\ entries[k].name = name
               /\ \A j \in (k + 1)..Len(entries) : entries[j].name # name]

\* lines 29-34 for the names k.. of namelist(), which lists every entry; the first
\* exception ends the archive (line 35) and leaves what was written before it
RECURSIVE extract_entries(_, _, _, _, _)
extract_entries(entries, k, folder, clk, src) ==
    IF k > Len(entries) THEN [folder |-> folder, clock |-> clk, failed |-> FALSE]
    ELSE LET e == getinfo(entries, entries[k].name) IN
         IF ~endswith_csv(e.name)
         THEN extract_entries(entries, k + 1, folder, clk, src)
         ELSE IF e.status = "bad_header"
         THEN [folder |-> folder, clock |-> clk, failed |-> TRUE]
         ELSE IF e.status = "bad_crc"
         THEN [folder |-> write_file(folder, basename(e.name), Unparseable, clk, src),
               clock |-> clk + 1, failed |-> TRUE]
         ELSE extract_entries(entries, k + 1,
                  write_file(folder, basename(e.name), e.content, clk, src),
                  clk + 1, src)

\* lines 27-36: one archive
extract_archive(archive, folder, clk, src) ==
    IF ~archive.openable
    THEN [folder |-> folder, clock |-> clk, failed |-> TRUE]
    ELSE extract_entries(archive.entries, 1, folder, clk, src)

\* the name of the file begins with a dot
is_hidden(base) == IF base.stem = <<>> THEN TRUE ELSE Head(base.stem) = "."

\* line 39: glob("*.csv"): the star matches no leading dot
glob_csv(folder) == {f \in DOMAIN folder : f.ext = ".csv" /\ ~is_hidden(f)}

\* the orders in which glob can list the files: the order of the directory
Listings(S) ==
    {s \in [1..Cardinality(S) -> S] : \A i, j \in 1..Cardinality(S) : s[i] = s[j] => i = j}

\* the modification times the file system can have given the files: its clock is
\* coarser than the writes, ticks are the writes of the run at which it had
\* advanced; the files of an earlier run (written 0) are older than this run's
Ticks(clk) == {T \in SUBSET (1..(clk - 1)) : clk > 1 => 1 \in T}

\* os.path.getmtime
getmtime(file, ticks) == Cardinality({t \in ticks : t <= file.written})

\* sorted(..., key=..., reverse=True): stable, equal keys keep the order of the list
RECURSIVE sorted_reverse(_, _)
sorted_reverse(s, key) ==
    IF s = <<>> THEN <<>>
    ELSE LET i == CHOOSE i \in 1..Len(s) :
                     /\ \A j \in 1..Len(s) : key[s[j]] <= key[s[i]]
                     /\ \A j \in 1..(i - 1) : key[s[j]] < key[s[i]]
         IN  <<s[i]>> \o sorted_reverse(SubSeq(s, 1, i - 1) \o SubSeq(s, i + 1, Len(s)), key)

\* line 39: sorted(glob("*.csv"), key=os.path.getmtime, reverse=True)
sort_newest_first(listing, folder, ticks) ==
    sorted_reverse(listing, [f \in DOMAIN folder |-> getmtime(folder[f], ticks)])

\* lines 22-23: no archive at all is reported, nothing is extracted
ExtractNone ==
    /\ pc = "extract"
    /\ zip_files = <<>>
    /\ pc' = "select"
    /\ UNCHANGED <<pandas, error, zip_files, zi, extracted, clock, csv_files, fi,
                   all_data_frames, df, DEFAULT_ATHLETE, app, factory_app,
                   request, filtered_df, response>>

\* lines 26-36: one iteration of the loop over the archives
ExtractArchive ==
    /\ pc = "extract"
    /\ zi <= Len(zip_files)
    /\ LET r == extract_archive(zip_files[zi], extracted, clock, zi)
       IN  /\ extracted' = r.folder
           /\ clock' = r.clock
    /\ zi' = zi + 1
    /\ pc' = IF zi = Len(zip_files) THEN "select" ELSE "extract"
    /\ UNCHANGED <<pandas, error, zip_files, csv_files, fi, all_data_frames, df,
                   DEFAULT_ATHLETE, app, factory_app, request, filtered_df,
                   response>>

\* line 41: not csv_files
no_csv_files(files) == files = <<>>

\* lines 39-45: select the extracted files, exit(1) if there is none; files with
\* equal modification times come in the order of the directory
Select ==
    /\ pc = "select"
    /\ \E listing \in Listings(glob_csv(extracted)), ticks \in Ticks(clock) :
          csv_files' = sort_newest_first(listing, extracted, ticks)
    /\ pc' = IF no_csv_files(csv_files') THEN "halted" ELSE "load"
    /\ UNCHANGED <<pandas, error, zip_files, zi, extracted, clock, fi, all_data_frames,
                   df, DEFAULT_ATHLETE, app, factory_app, request, filtered_df,
                   response>>

\* lines 49-58: one iteration of the loop over the files; df is the loop's variable
LoadFile ==
    /\ pc = "load"
    /\ fi <= Len(csv_files)
    /\ LET text == extracted[csv_files[fi]].content IN
       IF ~text.parseable
       THEN UNCHANGED <<df, all_data_frames>>
       ELSE /\ df' = read_csv(text, pandas)
            /\ all_data_frames' =
                  IF frame_empty(df') THEN all_data_frames
                  ELSE append_frame(all_data_frames, df')
    /\ fi' = fi + 1
    /\ pc' = IF fi = Len(csv_files) THEN "merge" ELSE "load"
    /\ UNCHANGED <<pandas, error, zip_files, zi, extracted, clock, csv_files,
                   DEFAULT_ATHLETE, app, factory_app, request, filtered_df,
                   response>>

\* a faulty line 61: the check is gone
nothing_loaded_ignored(frames) == FALSE

\* line 61: not all_data_frames
nothing_loaded(frames) == frames = <<>>

\* lines 61-66: merge, or exit(1) if nothing was loaded
Merge ==
    /\ pc = "merge"
    /\ IF nothing_loaded(all_data_frames)
       THEN /\ pc' = "halted"
            /\ UNCHANGED df
       ELSE /\ pc' = "normalize"
            /\ df' = concat(all_data_frames)
    /\ UNCHANGED <<pandas, error, zip_files, zi, extracted, clock, csv_files, fi,
                   all_data_frames, DEFAULT_ATHLETE, app, factory_app, request,
                   filtered_df, response>>

\* lines 69-71: the labels are normalised; df["date"] is a KeyError without a
\* date column and a frame (which pd.to_datetime cannot assemble: ValueError)
\* with several; otherwise the dates are parsed and the rows without one dropped
Normalize ==
    /\ pc = "normalize"
    /\ LET cols == normalize_columns(df.cols)
           D == positions(cols, COL_DATE)
       IN  IF Cardinality(D) = 1
           THEN LET d == CHOOSE j \in D : TRUE IN
                /\ df' = [cols |-> cols,
                          rows |-> dropna(parse_date_column(df.rows, d, pandas), d)]
                /\ pc' = "defaults"
                /\ UNCHANGED error
           ELSE /\ df' = [cols |-> cols, rows |-> df.rows]
                /\ pc' = "crashed"
                /\ error' = IF D = {} THEN "KeyError" ELSE "ValueError"
    /\ UNCHANGED <<pandas, zip_files, zi, extracted, clock, csv_files, fi,
                   all_data_frames, DEFAULT_ATHLETE, app, factory_app, request,
                   filtered_df, response>>

\* a faulty line 76: the last of the distinct names
default_athlete_last(frame) ==
    LET u == unique(column(frame, CHOOSE j \in positions(frame.cols, COL_NAME) : TRUE))
    IN  u[Len(u)]

\* line 76: df["name"].unique()[0]
default_athlete(frame) ==
    unique(column(frame, CHOOSE j \in positions(frame.cols, COL_NAME) : TRUE))[1]

\* line 76: df["name"].unique()[0]: a KeyError without a name column, an
\* AttributeError with several (a frame has no unique), an IndexError without rows
SetDefaults ==
    /\ pc = "defaults"
    /\ LET N == positions(df.cols, COL_NAME) IN
       IF Cardinality(N) = 1 /\ df.rows # <<>>
       THEN /\ DEFAULT_ATHLETE' = default_athlete(df)
            /\ pc' = "bind"
            /\ UNCHANGED error
       ELSE /\ pc' = "crashed"
            /\ error' = IF N = {} THEN "KeyError"
                        ELSE IF Cardinality(N) > 1 THEN "AttributeError"
                        ELSE "IndexError"
            /\ UNCHANGED DEFAULT_ATHLETE
    /\ UNCHANGED <<pandas, zip_files, zi, extracted, clock, csv_files, fi,
                   all_data_frames, df, app, factory_app, request, filtered_df,
                   response>>

(***************************************************************************)
(* Flask.  An app is its url map: a set of rules [rule, methods, endpoint]. *)
(* Every Flask app has the static rule; a rule registered without methods   *)
(* accepts GET (and HEAD, OPTIONS).                                         *)
(***************************************************************************)
StaticRule == [rule |-> "/static/<path:filename>",
               methods |-> {"GET", "HEAD", "OPTIONS"}, endpoint |-> "static"]

\* line 10: Flask(__name__, template_folder="templates")
Flask == {StaticRule}

NoApp == {}

\* lines 155-159: app is bound again, to a new app whose only view is home
module_app ==
    Flask \cup {[rule |-> "/", methods |-> {"GET", "HEAD", "OPTIONS"},
                 endpoint |-> "home"]}

\* lines 80-98: the app create_app() returns
create_app ==
    Flask \cup {[rule |-> "/", methods |-> {"GET", "POST", "HEAD", "OPTIONS"},
                 endpoint |-> "index"]}

\* lines 153-163: the module-level app is replaced
BindApp ==
    /\ pc = "bind"
    /\ app' = module_app
    /\ pc' = "main"
    /\ UNCHANGED <<pandas, error, zip_files, zi, extracted, clock, csv_files, fi,
                   all_data_frames, df, DEFAULT_ATHLETE, factory_app, request,
                   filtered_df, response>>

\* lines 165-166, run as a script: app.run serves the module-level app
MainRun ==
    /\ pc = "main"
    /\ pc' = "serving"
    /\ UNCHANGED <<pandas, error, zip_files, zi, extracted, clock, csv_files, fi,
                   all_data_frames, df, DEFAULT_ATHLETE, app, factory_app,
                   request, filtered_df, response>>

\* lines 165-166, imported as a module: nothing runs, the importer holds the module
MainImported ==
    /\ pc = "main"
    /\ pc' = "imported"
    /\ UNCHANGED <<pandas, error, zip_files, zi, extracted, clock, csv_files, fi,
                   all_data_frames, df, DEFAULT_ATHLETE, app, factory_app,
                   request, filtered_df, response>>

\* the importer calls create_app()
CreateApp ==
    /\ pc = "imported"
    /\ factory_app = NoApp
    /\ factory_app' = create_app
    /\ UNCHANGED <<pandas, pc, error, zip_files, zi, extracted, clock, csv_files, fi,
                   all_data_frames, df, DEFAULT_ATHLETE, app, request,
                   filtered_df, response>>

(***************************************************************************)
(* create_plot, lines 100-151.  A date argument is a string of the form or  *)
(* a Timestamp (the defaults of lines 91-92): [str |-> s] or [ts |-> d].    *)
(***************************************************************************)
NO_DATA_HTML == "<h3>No data available for the selected athlete and date range.</h3>"

\* pd.to_datetime(x) raises for a string that is no date; "" is NaT
to_datetime_raises(x) ==
    "str" \in DOMAIN x /\ x.str # "" /\ ~IsDateString(x.str)

to_datetime(x) == IF "ts" \in DOMAIN x THEN x.ts ELSE parse_date(x.str)

\* ==, >=, <= of pandas: a comparison with a missing value is False
eq_cell(a, b) == a # NaN /\ b # NaN /\ a = b

\* a faulty line 106: a strict bound
ge_date_strict(d, t) == d # NaT /\ t # NaT /\ d > t

ge_date(d, t) == d # NaT /\ t # NaT /\ d >= t

le_date(d, t) == d # NaT /\ t # NaT /\ d <= t

the_position(cols, label) == CHOOSE j \in positions(cols, label) : TRUE

\* lines 104-108: the rows of df of that athlete within [start, end]
filter_rows(frame, athlete, start, end) ==
    LET n == the_position(frame.cols, COL_NAME)
        d == the_position(frame.cols, COL_DATE)
    IN  [cols |-> frame.cols,
         rows |-> SelectSeq(frame.rows,
                    LAMBDA r : /\ eq_cell(r[n], athlete)
                               /\ ge_date(r[d], start)
                               /\ le_date(r[d], end))]

\* filtered_df[var]: the cells of the column of that label; with several columns
\* of that label the selection is a frame, each point carrying one cell per column
series(frame, var) ==
    LET P == positions(frame.cols, var) IN
    IF Cardinality(P) = 1
    THEN column(frame, CHOOSE j \in P : TRUE)
    ELSE [i \in 1..Len(frame.rows) |->
            LET js == SelectSeq([j \in 1..Len(frame.cols) |-> j], LAMBDA j : j \in P)
            IN  [k \in 1..Len(js) |-> frame.rows[i][js[k]]]]

NoView == [cols |-> <<>>, rows |-> <<>>, none |-> TRUE]

\* a faulty line 110: an empty view is not noticed
view_empty_ignored(view) == FALSE

\* line 110: filtered_df.empty
view_empty(view) == view.rows = <<>>

\* faulty lines 119, 130: a label is never looked up
has_column_unchecked(frame, var) == TRUE

\* filtered_df[var] is a KeyError unless var is a label of the frame
has_column(frame, var) == positions(frame.cols, var) # {}

\* a faulty create_plot: the module-level df is rebound (global df)
plot_rebinds_df(frame, view) == view

\* create_plot assigns only its local filtered_df: the module-level df stays
plot_leaves_df(frame, view) == frame

\* the result: what is returned or raised (out), the local filtered_df, and the
\* module-level df afterwards
create_plot(frame, athlete, var1, var2, start_date, end_date) ==
    IF to_datetime_raises(start_date) \/ to_datetime_raises(end_date)
    THEN [out |-> [kind |-> "raise", exc |-> "ValueError"],
          filtered_df |-> NoView, df |-> frame]
    ELSE LET view == filter_rows(frame, athlete, to_datetime(start_date),
                                 to_datetime(end_date))
             after == plot_leaves_df(frame, view)
         IN  IF view_empty(view)
             THEN [out |-> [kind |-> "html", html |-> NO_DATA_HTML],
                   filtered_df |-> view, df |-> after]
             ELSE IF ~has_column(view, var1) \/ ~has_column(view, var2)
             THEN [out |-> [kind |-> "raise", exc |-> "KeyError"],
                   filtered_df |-> view, df |-> after]
             ELSE [out |-> [kind |-> "figure",
                            title |-> athlete,
                            x |-> series(view, COL_DATE),
                            name1 |-> var1, y1 |-> series(view, var1),
                            name2 |-> var2, y2 |-> series(view, var2)],
                   filtered_df |-> view, df |-> after]

(***************************************************************************)
(* index, lines 84-96, and the dispatch of a request on "/".  request.form  *)
(* is a function from the names of the fields that were sent to their       *)
(* values.                                                                  *)
(***************************************************************************)
EmptyForm == [k \in {} |-> ""]

\* request.form.get(key, default)
form_get(form, key, default) == IF key \in DOMAIN form THEN form[key] ELSE default

\* the minimum and the maximum of a date column; NaT for an empty one
RECURSIVE seq_min(_)
seq_min(s) ==
    IF s = <<>> THEN NaT
    ELSE IF Len(s) = 1 THEN s[1]
    ELSE LET m == seq_min(Tail(s)) IN IF s[1] <= m THEN s[1] ELSE m

RECURSIVE seq_max(_)
seq_max(s) ==
    IF s = <<>> THEN NaT
    ELSE IF Len(s) = 1 THEN s[1]
    ELSE LET m == seq_max(Tail(s)) IN IF s[1] >= m THEN s[1] ELSE m

\* line 91: df["date"].min()
date_min(frame) == seq_min(column(frame, the_position(frame.cols, COL_DATE)))

\* line 92: df["date"].max()
date_max(frame) == seq_max(column(frame, the_position(frame.cols, COL_DATE)))

\* lines 88-96: the parameters read, the plot, and the page as the values handed
\* to the template (or the exception, which Flask answers with status 500)
index(frame, default_athlete_value, form) ==
    LET athlete == form_get(form, "athlete", default_athlete_value)
        var1 == form_get(form, "var1", DEFAULT_VAR1)
        var2 == form_get(form, "var2", DEFAULT_VAR2)
        start_date == IF "start_date" \in DOMAIN form
                      THEN [str |-> form["start_date"]]
                      ELSE [ts |-> date_min(frame)]
        end_date == IF "end_date" \in DOMAIN form
                    THEN [str |-> form["end_date"]]
                    ELSE [ts |-> date_max(frame)]
        p == create_plot(frame, athlete, var1, var2, start_date, end_date)
    IN  [params |-> [athlete |-> athlete, var1 |-> var1, var2 |-> var2,
                     start_date |-> start_date, end_date |-> end_date],
         filtered_df |-> p.filtered_df,
         df |-> p.df,
         response |->
            IF p.out.kind = "raise"
            THEN [status |-> 500, endpoint |-> "index", error |-> p.out.exc]
            ELSE [status |-> 200, endpoint |-> "index", plot_html |-> p.out,
                  athletes |-> unique(column(p.df, the_position(p.df.cols, COL_NAME))),
                  variables |-> p.df.cols]]

\* lines 157-159
home == [status |-> 200, endpoint |-> "home", body |-> "Flask is working!"]

\* the rule of "/" that accepts the method: the endpoint, or 404 / 405
route(url_map, method) ==
    LET R == {r \in url_map : r.rule = "/"} IN
    IF R = {} THEN "404"
    ELSE IF \E r \in R : method \in r.methods
    THEN (CHOOSE r \in R : method \in r.methods).endpoint
    ELSE "405"

NoRequest == [target |-> "", method |-> "", form |-> EmptyForm]
NoResponse == [status |-> 0, endpoint |-> ""]
NoParams == [none |-> TRUE]

\* the forms: each field absent or one of the values
AthleteValues == {"A", "7"}
UNKNOWN_COLUMN == <<"n","o","n","e","x","i","s","t","e","n","t">>
StartValues == {"2024-01-02"}
EndValues == {"2024-01-01"}

Field(k, present, v) == IF present THEN k :> v ELSE EmptyForm

Chosen(values, absent) == ({FALSE} \X {absent}) \cup ({TRUE} \X values)

\* any athlete and any dates, with the default metrics
FormsDates ==
    {Field("athlete", pa, a) @@ Field("start_date", ps, sd) @@ Field("end_date", pe, ed) :
       <<pa, a>> \in Chosen(AthleteValues, ""),
       <<ps, sd>> \in Chosen(StartValues, ""),
       <<pe, ed>> \in Chosen(EndValues, "")}

\* a start that is no date, an end left empty
FormsBadDates ==
    {Field("start_date", ps, "yesterday") @@ Field("end_date", pe, "") :
       ps \in BOOLEAN, pe \in BOOLEAN}

\* an unknown metric, with the whole span of dates or with an empty one
FormsMetrics ==
    {Field("athlete", pa, a) @@ Field("var1", p1, UNKNOWN_COLUMN)
       @@ Field("var2", p2, UNKNOWN_COLUMN)
       @@ Field("start_date", pd, "2024-01-02") @@ Field("end_date", pd, "2024-01-01") :
       <<pa, a>> \in Chosen({"B"}, ""),
       <<p1, p2>> \in (BOOLEAN \X BOOLEAN) \ {<<FALSE, FALSE>>}, pd \in BOOLEAN}

Forms == FormsDates \cup FormsBadDates \cup FormsMetrics

\* the apps somebody can send a request to: app.run serves the module-level app;
\* an importer can call either app
Reachable(target) ==
    \/ pc = "serving" /\ target = "app"
    \/ pc = "imported" /\ target = "app"
    \/ pc = "imported" /\ target = "factory" /\ factory_app # NoApp

\* one request on "/": dispatched by the url map of the app; a GET carries no form
Request ==
    \E target \in {"app", "factory"}, method \in {"GET", "POST"} :
    \E form \in (IF method = "GET" THEN {EmptyForm} ELSE Forms) :
       /\ Reachable(target)
       /\ LET url_map == IF target = "app" THEN app ELSE factory_app
              endpoint == route(url_map, method)
              r == index(df, DEFAULT_ATHLETE, form)
          IN  IF endpoint = "index"
              THEN /\ request' = [target |-> target, method |-> method,
                                  form |-> form, params |-> r.params]
                   /\ response' = r.response
                   /\ filtered_df' = r.filtered_df
                   /\ df' = r.df
              ELSE /\ request' = [target |-> target, method |-> method,
                                  form |-> EmptyForm, params |-> NoParams]
                   /\ response' = IF endpoint = "home" THEN home
                                  ELSE [status |-> IF endpoint = "404" THEN 404 ELSE 405,
                                        endpoint |-> ""]
                   /\ filtered_df' = NoView
                   /\ UNCHANGED df
       /\ UNCHANGED <<pandas, pc, error, zip_files, zi, extracted, clock, csv_files, fi,
                      all_data_frames, DEFAULT_ATHLETE, app, factory_app>>

(***************************************************************************)
(* The inputs: the headers and rows of the CSV files, the archives.         *)
(***************************************************************************)
HeaderUsual == <<COL_DATE, COL_NAME, DEFAULT_VAR1, DEFAULT_VAR2>>

\* the same columns as a spreadsheet export writes them, with a no-break space,
\* a carriage return and accented capitals
HeaderExport ==
    <<<<"U+00A0","D","a","t","e">>, <<"N","a","m","e"," ","\r">>,
      <<"T","i","m","e"," ","T","o"," ","T","a","k","e","o","f","f">>,
      <<"M","R","S","I">>,
      <<"U+00C9","q","u","i","p","e">>, <<"U+0130","l">>>>

\* spaces where the usual header has underscores, and a last column without a label
HeaderSpaces ==
    <<COL_DATE, COL_NAME,
      <<"t","i","m","e"," ","t","o"," ","t","a","k","e","o","f","f">>,
      <<"m","r","s","i"," ">>, <<>>>>

\* two labels that differ only in letter case
HeaderTwoCases ==
    <<COL_DATE, COL_NAME, DEFAULT_VAR1, DEFAULT_VAR2, <<"M","R","S","I">>>>

HeaderNoDate == <<COL_NAME, DEFAULT_VAR2>>

\* no name, and the date label twice, around the name its repeat would get
HeaderNoName == <<COL_DATE, <<"d","a","t","e",".","1">>, COL_DATE, DEFAULT_VAR2>>

HeaderTwoDates == <<COL_DATE, <<"D","a","t","e">>, COL_NAME>>

HeaderTwoNames == <<COL_DATE, COL_NAME, <<"N","A","M","E">>>>

Headers == {HeaderUsual, HeaderExport, HeaderSpaces, HeaderTwoCases,
            HeaderNoDate, HeaderNoName, HeaderTwoDates, HeaderTwoNames}

\* a row of a file: its date cell and its name cell; every other cell is a number
csv_row(header, seed) ==
    [j \in 1..Len(header) |->
       IF normalize_label(header[j]) = COL_DATE THEN seed[1]
       ELSE IF normalize_label(header[j]) = COL_NAME THEN seed[2]
       ELSE "35.2"]

csv_text(header, seeds) ==
    [parseable |-> TRUE, cols |-> header,
     rows |-> [i \in 1..Len(seeds) |-> csv_row(header, seeds[i])]]

\* rows of the files with the usual header
SeedsUsual == {<<"2024-01-01", "A">>, <<"2024-01-02", "A">>}

\* rows of the files with any header: dated, without a date, with a numeral for
\* a date
SeedsWide == {<<"2024-01-01", "A">>, <<"", "B">>, <<"7", "A">>}

\* rows of the one-row files: also without a name (None is a name before
\* pandas 2.0), with a numeral for a name
SeedsSingle == SeedsWide \cup {<<"2024-01-02", "None">>, <<"2024-01-01", "7">>}

FilesUsual == {csv_text(HeaderUsual, s) : s \in SeqsUpTo(SeedsUsual, MaxRows)}

FilesWide ==
    {Unparseable} \cup
    {csv_text(h, s) : h \in Headers, s \in SeqsUpTo(SeedsWide, MaxRowsWide)}

FilesSingle ==
    {Unparseable} \cup {csv_text(h, <<>>) : h \in Headers}
    \cup {csv_text(h, <<s>>) : h \in Headers, s \in SeedsSingle}

\* the files a second entry of the delivery can be
SmallFile == csv_text(HeaderUsual, <<<<"2024-01-01", "A">>>>)
OtherFile == csv_text(HeaderUsual, <<<<"2024-01-02", "B">>>>)
UndatedFile == csv_text(HeaderUsual, <<<<"not a date", "B">>>>)
HeaderOnlyFile == csv_text(HeaderUsual, <<>>)

SecondFiles == {SmallFile, OtherFile, UndatedFile, HeaderOnlyFile}

\* the files a second entry can be where the headers vary
SecondFilesWide ==
    {Unparseable, UndatedFile,
     csv_text(HeaderExport, <<<<"2024-01-02", "B">>>>),
     csv_text(HeaderTwoCases, <<<<"2024-01-01", "7">>>>),
     csv_text(HeaderNoDate, <<<<"2024-01-02", "NA">>>>),
     csv_text(HeaderUsual, <<<<"7", "B">>, <<"", "A">>>>),
     csv_text(HeaderNoName, <<<<"2024-01-03", "A">>>>)}

EntryName(dirs, stem, ext) == [dirs |-> dirs, stem |-> stem, ext |-> ext]

Entry(name, status, content) == [name |-> name, status |-> status, content |-> content]

Archive(entries) == [openable |-> TRUE, entries |-> entries]

BadArchive == [openable |-> FALSE, entries |-> <<>>]

A_CSV == EntryName(<<>>, <<"a">>, ".csv")
B_CSV == EntryName(<<>>, <<"b">>, ".csv")

NoFiles == [f \in {} |-> Unparseable]

StaleFiles ==
    [f \in {[stem |-> <<"o","l","d">>, ext |-> ".csv"]} |->
       [content |-> csv_text(HeaderUsual, <<<<"2024-01-03", "B">>>>),
        written |-> 0, src |-> 0]]

\* one archive with a.csv and possibly b.csv, of the given contents
Delivery(files) ==
    <<Archive([i \in 1..Len(files) |->
                 Entry(IF i = 1 THEN A_CSV ELSE B_CSV, "ok", files[i])])>>

InputsUsual ==
    {Delivery(<<a>>) : a \in FilesUsual} \cup
    {Delivery(<<a, b>>) : a \in FilesUsual, b \in SecondFiles}

InputsWideSingle == {Delivery(<<a>>) : a \in FilesSingle}

\* the cells of the date column of a file as read, none for a file without one
date_cells(text) ==
    IF ~text.parseable THEN <<>>
    ELSE LET frame == read_csv(text, 2)
             D == positions(normalize_columns(frame.cols), COL_DATE)
         IN  IF D = {} THEN <<>> ELSE column(frame, CHOOSE j \in D : \A k \in D : j <= k)

has_number(cells) == \E i \in 1..Len(cells) : IsNumber(cells[i])

has_text(cells) == \E i \in 1..Len(cells) : cells[i] # NaN /\ ~IsNumber(cells[i])

\* the merged date column would hold numbers beside strings
mixes_dates(a, b) ==
    \/ has_number(date_cells(a)) /\ has_text(date_cells(b))
    \/ has_text(date_cells(a)) /\ has_number(date_cells(b))

\* one file, or two files whose date columns are of one kind
InputsWide ==
    {Delivery(<<a>>) : a \in FilesWide} \cup
    {Delivery(<<p[1], p[2]>>) :
       p \in {q \in FilesWide \X SecondFilesWide : ~mixes_dates(q[1], q[2])}}

\* the entries of the archives of the extraction runs
EntryPool ==
    {Entry(A_CSV, "ok", SmallFile),
     Entry(EntryName(<<"sub">>, <<"a">>, ".csv"), "ok", OtherFile),
     Entry(EntryName(<<>>, <<"n","o","t","e","s">>, ".txt"), "ok", Unparseable),
     Entry(EntryName(<<>>, <<>>, ".csv"), "ok", UndatedFile),
     Entry(EntryName(<<"sub">>, <<".","h","i","d","d","e","n">>, ".csv"), "ok", OtherFile),
     Entry(B_CSV, "ok", OtherFile),
     Entry(B_CSV, "bad_crc", SmallFile),
     Entry(B_CSV, "bad_header", SmallFile)}

Archives == {BadArchive} \cup {Archive(es) : es \in SeqsUpTo(EntryPool, MaxEntries)}

InputsExtract == SeqsUpTo(Archives, MaxZips)

\* the major versions of pandas the process can run with
PANDAS_VERSIONS == {1, 2}

InitWith(zips, folder) ==
    /\ pandas \in PANDAS_VERSIONS
    /\ pc = "extract"
    /\ error = ""
    /\ zip_files = zips
    /\ zi = 1
    /\ extracted = folder
    /\ clock = 1
    /\ csv_files = <<>>
    /\ fi = 1
    /\ all_data_frames = <<>>
    /\ df = NoFrame
    /\ DEFAULT_ATHLETE = NaN
    /\ app = Flask
    /\ factory_app = NoApp
    /\ request = NoRequest
    /\ filtered_df = NoView
    /\ response = NoResponse

\* the process starts with the files of one delivery, or with no archive at all
\* and an empty or a used working directory; requests follow
Init ==
    \E zips \in InputsUsual \cup InputsWideSingle \cup {<<>>} :
    \E folder \in {NoFiles, StaleFiles} :
       /\ zips # <<>> => folder = NoFiles
       /\ InitWith(zips, folder)

\* the process starts with one file of any header, alone or before a second
\* file, or with nothing
InitStartup ==
    \E zips \in InputsWide \cup {<<>>} : InitWith(zips, NoFiles)

\* the process starts with any archives, over an empty or a used working directory
InitExtract ==
    \E zips \in InputsExtract, folder \in {NoFiles, StaleFiles} :
       InitWith(zips, folder)

Startup ==
    \/ ExtractNone
    \/ ExtractArchive
    \/ Select
    \/ LoadFile
    \/ Merge
    \/ Normalize
    \/ SetDefaults
    \/ BindApp
    \/ MainRun
    \/ MainImported

Next ==
    \/ Startup
    \/ CreateApp
    \/ Request

Spec == Init /\ [][Next]_vars

SpecStartup == InitStartup /\ [][Startup]_vars

SpecExtract == InitExtract /\ [][Startup]_vars

(***************************************************************************)
(* What the claims need to speak about a state.                             *)
(***************************************************************************)
\* start-up ran to its end: the process serves, or the importer holds the module
Started == pc \in {"serving", "imported"}

\* lines 69-71 ran without an exception
Normalized == pc \in {"defaults", "bind", "main", "serving", "imported"}

\* the last request was answered by index, whose create_plot built a view
IndexAnswered == response.endpoint = "index"

ViewBuilt == IndexAnswered /\ "none" \notin DOMAIN filtered_df

NamePos == the_position(df.cols, COL_NAME)
DatePos == the_position(df.cols, COL_DATE)

\* row r of the table is of that subject and dated within [s, e], bounds included
Matches(r, subject, s, e) ==
    /\ r[NamePos] # NaN
    /\ r[NamePos] = subject
    /\ s # NaT /\ e # NaT
    /\ s <= r[DatePos] /\ r[DatePos] <= e

\* C1: the app that app.run serves has exactly one rule on "/", which accepts GET
\* and POST and is answered by the dashboard view (filter and chart), so every
\* answer of the served app comes from it.
C1_ServedAppIsTheDashboard ==
    pc = "serving" =>
       /\ Cardinality({r \in app : r.rule = "/"}) = 1
       /\ \A r \in app : r.rule = "/" =>
             {"GET", "POST"} \subseteq r.methods /\ r.endpoint = "index"
       /\ response.status # 0 => response.endpoint = "index"

\* C2: the view create_plot builds holds exactly the rows of the table whose name
\* is the subject and whose date d has start <= d <= end (a row dated start or
\* end is in it), in table order, under the columns of the table.
C2_ViewIsTheMatchingRows ==
    ViewBuilt =>
       LET p == request.params
           s == to_datetime(p.start_date)
           e == to_datetime(p.end_date)
       IN  /\ filtered_df.cols = df.cols
           /\ filtered_df.rows =
                 SelectSeq(df.rows, LAMBDA r : Matches(r, p.athlete, s, e))

\* a view that holds a row dated exactly start and one dated exactly end, of a
\* table that has a row of the subject outside the range
C2_Witness ==
    /\ ViewBuilt
    /\ "start_date" \in DOMAIN request.form
    /\ "end_date" \notin DOMAIN request.form
    /\ \E i \in 1..Len(filtered_df.rows) :
          filtered_df.rows[i][DatePos] = to_datetime(request.params.start_date)
    /\ \E i \in 1..Len(filtered_df.rows) :
          filtered_df.rows[i][DatePos] = to_datetime(request.params.end_date)
    /\ \E i \in 1..Len(df.rows) :
          /\ df.rows[i][NamePos] = request.params.athlete
          /\ df.rows[i][DatePos] < to_datetime(request.params.start_date)

\* C3: when index is asked for a subject and a date range (both bounds parse) that
\* no row of the table matches, create_plot returns the fixed notice and the
\* request succeeds, whatever the two metric names are.
C3_NoMatchGivesTheNotice ==
    (/\ IndexAnswered
     /\ ~to_datetime_raises(request.params.start_date)
     /\ ~to_datetime_raises(request.params.end_date)
     /\ \A i \in 1..Len(df.rows) :
           ~Matches(df.rows[i], request.params.athlete,
                    to_datetime(request.params.start_date),
                    to_datetime(request.params.end_date)))
    => /\ response.status = 200
       /\ response.plot_html = [kind |-> "html", html |-> NO_DATA_HTML]

\* a subject that does not occur in the table, asked for with two unknown metrics
C3_Witness ==
    /\ IndexAnswered
    /\ response.status = 200
    /\ response.plot_html.kind = "html"
    /\ \A i \in 1..Len(df.rows) : df.rows[i][NamePos] # request.params.athlete
    /\ request.params.var1 = UNKNOWN_COLUMN
    /\ request.params.var2 = UNKNOWN_COLUMN

\* C4 as stated: for every view, a metric that is no column of the view makes the
\* request fail with the missing-column error.
C4_AnyViewMissingColumnFails ==
    (/\ ViewBuilt
     /\ \/ ~InSeq(request.params.var1, filtered_df.cols)
        \/ ~InSeq(request.params.var2, filtered_df.cols))
    => response.status = 500 /\ response.error = "KeyError"

\* C4 as amended: for every view that is not empty, a metric that is no column of
\* the view makes the request fail with the missing-column error; the process is
\* still up afterwards.
C4_MissingColumnFailsTheRequest ==
    (/\ ViewBuilt
     /\ filtered_df.rows # <<>>
     /\ \/ ~InSeq(request.params.var1, filtered_df.cols)
        \/ ~InSeq(request.params.var2, filtered_df.cols))
    => /\ response.status = 500 /\ response.error = "KeyError"
       /\ Started /\ error = ""

\* a request that found rows and failed on its second metric alone
C4_Witness ==
    /\ ViewBuilt
    /\ filtered_df.rows # <<>>
    /\ InSeq(request.params.var1, filtered_df.cols)
    /\ ~InSeq(request.params.var2, filtered_df.cols)
    /\ response.status = 500
    /\ Started

\* the rows a file brings: those of a file that parsed and is not empty
RowsOf(text) == IF text.parseable /\ text.rows # <<>> THEN Len(text.rows) ELSE 0

\* the rows of a file without a date: every row of a file that has no date column,
\* else the rows whose date cell is missing or is no date; a numeral is a date (a
\* time of 1970) where every date cell of the file that is not missing is one,
\* and is text like any other where the column holds other text
UndatedRowsOf(text) ==
    LET cols == mangle_dupe_cols(text.cols, pandas)
        D == {j \in 1..Len(cols) : normalize_label(cols[j]) = COL_DATE}
    IN  IF ~text.parseable THEN 0
        ELSE IF D = {} THEN Len(text.rows)
        ELSE LET d == CHOOSE j \in D : TRUE
                 present == {i \in 1..Len(text.rows) :
                               text.rows[i][d] \notin NA_VALUES(pandas)}
                 numbers == /\ present # {}
                            /\ \A i \in present : text.rows[i][d] \in {"7", "35.2"}
             IN  Cardinality({i \in 1..Len(text.rows) :
                                \/ i \notin present
                                \/ ~numbers /\ ~IsDateString(text.rows[i][d])})

RECURSIVE TotalRows(_)
TotalRows(files) ==
    IF files = <<>> THEN 0
    ELSE RowsOf(extracted[Head(files)].content) + TotalRows(Tail(files))

RECURSIVE TotalUndated(_)
TotalUndated(files) ==
    IF files = <<>> THEN 0
    ELSE UndatedRowsOf(extracted[Head(files)].content) + TotalUndated(Tail(files))

C6_ColumnNamesDistinct ==
    Normalized =>
       /\ \A i, j \in 1..Len(df.cols) : df.cols[i] = df.cols[j] => i = j
       /\ \A j \in 1..Len(df.cols) :
             \A k \in 1..Len(df.cols[j]) :
                /\ df.cols[j][k] # " "
                /\ \A u \in 1..Len(UpperCase) : df.cols[j][k] # UpperCase[u]

\* the table is complete: normalised labels, one date column, every row dated,
\* and the default subject taken from it
TableBuilt ==
    /\ df.cols = normalize_columns(df.cols)
    /\ Cardinality(positions(df.cols, COL_DATE)) = 1
    /\ Cardinality(positions(df.cols, COL_NAME)) = 1
    /\ df.rows # <<>>
    /\ \A i \in 1..Len(df.rows) : df.rows[i][DatePos] # NaT
    /\ DEFAULT_ATHLETE = df.rows[1][NamePos]

\* C7: a request is answered, and the process is up, only with the table complete;
\* with no CSV file selected, or no file loaded, the process has halted and has
\* answered nothing.
C7_NoServiceWithoutTable ==
    /\ (Started \/ response.status # 0) =>
          csv_files # <<>> /\ all_data_frames # <<>> /\ TableBuilt
    /\ (pc \notin {"extract", "select"} /\ csv_files = <<>>) =>
          pc = "halted" /\ response.status = 0 /\ app = Flask
    /\ (pc \notin {"extract", "select", "load", "merge"} /\ all_data_frames = <<>>) =>
          pc = "halted" /\ response.status = 0 /\ app = Flask

\* files were selected, none of them was loaded, and the process halted
C7_Witness ==
    /\ pc = "halted"
    /\ csv_files # <<>>
    /\ all_data_frames = <<>>
    /\ response.status = 0

\* C8: from the end of start-up on, no step changes the table or the default
\* subject, whatever the request and its outcome.
C8_TableIsReadOnly ==
    [][Started => (df' = df /\ DEFAULT_ATHLETE' = DEFAULT_ATHLETE)]_vars

\* a request that failed on an unknown metric has been answered, by an app whose
\* table holds rows the request did not select
C8_Witness ==
    /\ ViewBuilt
    /\ response.status = 500
    /\ Len(filtered_df.rows) < Len(df.rows)
    /\ TableBuilt

\* C9: on every request index answers, a parameter the form does not carry is the
\* default: the first name of the table, time_to_takeoff, mrsi, the least and the
\* greatest date of the table; a request without any field selects every row of
\* the default subject, and a chart it yields has one point per such row in both
\* series.
C9_Defaults ==
    IndexAnswered =>
       LET p == request.params
           f == request.form
           mine == SelectSeq(df.rows, LAMBDA r :
                      r[NamePos] # NaN /\ r[NamePos] = df.rows[1][NamePos])
       IN  /\ "athlete" \notin DOMAIN f => p.athlete = df.rows[1][NamePos]
           /\ "var1" \notin DOMAIN f =>
                 p.var1 = <<"t","i","m","e","_","t","o","_","t","a","k","e","o","f","f">>
           /\ "var2" \notin DOMAIN f => p.var2 = <<"m","r","s","i">>
           /\ "start_date" \notin DOMAIN f =>
                 /\ \A i \in 1..Len(df.rows) : to_datetime(p.start_date) <= df.rows[i][DatePos]
                 /\ \E i \in 1..Len(df.rows) : to_datetime(p.start_date) = df.rows[i][DatePos]
           /\ "end_date" \notin DOMAIN f =>
                 /\ \A i \in 1..Len(df.rows) : to_datetime(p.end_date) >= df.rows[i][DatePos]
                 /\ \E i \in 1..Len(df.rows) : to_datetime(p.end_date) = df.rows[i][DatePos]
           /\ DOMAIN f = {} =>
                 /\ filtered_df.rows = mine
                 /\ (response.status = 200 /\ mine # <<>>) =>
                       /\ response.plot_html.kind = "figure"
                       /\ Len(response.plot_html.y1) = Len(mine)
                       /\ Len(response.plot_html.y2) = Len(mine)

\* a request without fields drew the two rows of the default subject, on two
\* different days, out of a table of three rows
C9_Witness ==
    /\ IndexAnswered
    /\ DOMAIN request.form = {}
    /\ response.status = 200
    /\ response.plot_html.kind = "figure"
    /\ Len(response.plot_html.y1) = 2
    /\ response.plot_html.x[1] # response.plot_html.x[2]
    /\ Len(df.rows) = 3

\* the archive raised while it was extracted: it cannot be opened, or the entry
\* that one of its CSV names stands for (the last of that name) cannot be read
Failing(archive) ==
    \/ ~archive.openable
    \/ \E k \in 1..Len(archive.entries) :
          /\ endswith_csv(archive.entries[k].name)
          /\ \A j \in (k + 1)..Len(archive.entries) :
                archive.entries[j].name # archive.entries[k].name
          /\ archive.entries[k].status # "ok"

\* C10: after extraction, every CSV entry of every archive that did not fail is in
\* the working directory under its base filename, and no file of the working
\* directory was written from an archive that failed.
C10_FailingArchiveLeavesNothing ==
    pc # "extract" =>
       \A i \in 1..Len(zip_files) :
          IF Failing(zip_files[i])
          THEN \A f \in DOMAIN extracted : extracted[f].src # i
          ELSE \A k \in 1..Len(zip_files[i].entries) :
                  endswith_csv(zip_files[i].entries[k].name) =>
                     basename(zip_files[i].entries[k].name) \in DOMAIN extracted

====
